---- MODULE Spec2Model ----
(***************************************************************************)
(* MongoDB -> GCS backup job (main.py, app.py).                           *)
(*                                                                         *)
(* One invocation of an entry point (main.main or app.trigger_backup):    *)
(* construct MongoDBBackup, run_backup(), cleanup_old_backups(), respond.  *)
(* The database, the bucket and the mail service are the environment:     *)
(* every call to them has its outcome drawn from the outcomes the call    *)
(* can produce (return, the exception class the code catches, any other   *)
(* exception).                                                             *)
(***************************************************************************)
EXTENDS Integers, Sequences, FiniteSets, TLC

\* ---------------------------------------------------------------- bounds
\* longest MONGO_COLLECTIONS value, in comma-separated tokens
MaxTokens == 2

\* ------------------------------------------------------------- constants
\* clock ticks per second (strftime('%Y-%m-%d_%H-%M-%S') has 1 s resolution)
TicksPerSecond == 2
\* timedelta(days=days)
SecondsPerDay == 86400
\* os.getenv('BACKUP_RETENTION_DAYS', 30)
DefaultRetentionDays == 30

TicksPerDay == SecondsPerDay * TicksPerSecond

\* clock value when the entry point is invoked
StartTime == 100 * TicksPerDay

\* --------------------------------------------------------------- domains
\* os.getenv('MONGO_DB_NAME', 'default_db')
db_name == "default_db"

\* tokens of MONGO_COLLECTIONS after split(','): a name, a padded name and
\* the blank token (an unset variable splits into one blank token)
RawTokens == {"users", " equipment ", ""}

\* what db.list_collection_names() can report
LiveLists == {<< >>, <<"users">>, <<"users", "equipment">>, <<"equipment", "users">>}

\* len(documents) of an export
Counts == {0, 3}

\* values BACKUP_RETENTION_DAYS can hold ("unset": the variable is absent,
\* "bad": text that int() rejects)
RetentionEnv == {"unset", "bad", "0", "1"}

\* str.strip() on the tokens of RawTokens
strip(s) == IF s = " equipment " THEN "equipment" ELSE s

\* int(os.getenv('BACKUP_RETENTION_DAYS', 30)); -1 stands for ValueError
ParseRetention(v) ==
    CASE v = "unset" -> DefaultRetentionDays
      [] v = "0"     -> 0
      [] v = "1"     -> 1
      [] OTHER       -> -1

Range(s) == {s[i] : i \in DOMAIN s}

\* all sequences over S of length at most n
SeqsUpTo(S, n) == UNION {[1..k -> S] : k \in 0..n}

\* Python None for the export result
None == [collection |-> "", count |-> -1, isNone |-> TRUE]

\* mutant: a stamp with the resolution of two seconds
strftime_coarse(t) == t \div (2 * TicksPerSecond)

\* datetime.utcnow().strftime('%Y-%m-%d_%H-%M-%S'): the clock at 1 s resolution
strftime(t) == t \div TicksPerSecond

\* an object name in the bucket: backups/<dir>/<stamp>/<file>.json
Path(dir, stamp, file) == [dir |-> dir, stamp |-> stamp, file |-> file]

\* blobs under backups/ before the run (the bucket starts empty or with all
\* of them); created = -1 stands for a blob whose time_created is None
OldBlobs ==
    { [path |-> Path(db_name, strftime(StartTime - 40 * TicksPerDay), "users"),
       created |-> StartTime - 40 * TicksPerDay],
      [path |-> Path(db_name, strftime(StartTime - 30 * TicksPerDay), "users"),
       created |-> StartTime - 30 * TicksPerDay],
      [path |-> Path(db_name, strftime(StartTime - 10 * TicksPerDay), "users"),
       created |-> StartTime - 10 * TicksPerDay],
      [path |-> Path(db_name, 0, "equipment"), created |-> -1] }

VARIABLES
    entry,              \* "main" (main.main) or "app" (app.trigger_backup)
    env_collections,    \* MONGO_COLLECTIONS split at ','
    env_bucket,         \* GCS_BUCKET is set
    pc,                 \* position in the entry point / run_backup
    collections,        \* self.collections
    mongo_client,       \* "None", "open", "unreachable" (created, ping failed), "closed"
    gcs_client,         \* "None", "ok", "unreachable" (created, reload failed)
    backup_info,        \* self.backup_info
    backup_timestamp,   \* self.backup_timestamp
    available,          \* available_collections as the database reported them
    targets,            \* run_backup's local 'collections'
    idx,                \* number of targets the for loop has finished
    data,               \* run_backup's local 'data'
    exc,                \* exception in flight inside run_backup's try, or "none"
    success,            \* value run_backup returned: "unset", "True", "False"
    response,           \* what the entry point returned
    now,                \* clock
    store,              \* blobs in the bucket under backups/
    cutoff,             \* cleanup_old_backups' cutoff_date
    pending,            \* blobs the cleanup loop has listed and not yet visited
    exportCalls,        \* export_collection_to_json calls: [name, outcome, count], in order
    putCalls,           \* upload_to_gcs calls: [path, ok], in order
    emails,             \* send_*_email calls (ErrorMail / SuccessMail), in order
    mail_result,        \* how the send_*_email call of run_backup ended; run_backup
                        \* discards it, "unset" outside run_backup's return
    deleteCalls,        \* blob.delete() calls: [path, ok, absent], in order
    log,                \* logger.error / logger.warning lines of run_backup and cleanup
    listing,            \* what list_blobs returned to the cleanup loop
    externalDeletes,    \* blobs removed by another actor while the cleanup loop runs
    run_counter,        \* the persisted RunCounter of the design; no statement of
                        \* main.py, app.py or backup.py reads or writes one
    runs                \* two-run view: the MongoDBBackup objects constructed so far

vars == <<entry, env_collections, env_bucket, pc, collections, mongo_client,
          gcs_client, backup_info, backup_timestamp, available, targets, idx,
          data, exc, success, response, now, store, cutoff, pending,
          exportCalls,
          putCalls, emails, mail_result, deleteCalls, log, listing,
          externalDeletes,
          run_counter, runs>>

selfVars == <<collections, mongo_client, gcs_client, backup_info, backup_timestamp>>
envVars == <<entry, env_collections, env_bucket>>
loopVars == <<available, targets, idx, data>>
histVars == <<exportCalls, putCalls, emails, mail_result, deleteCalls, log>>
worldVars == <<listing, externalDeletes, run_counter, runs>>

NoResponse == [status |-> "none", code |-> 0, backup_info |-> << >>]

Init ==
    /\ entry \in {"main", "app"}
    /\ env_collections \in SeqsUpTo(RawTokens, MaxTokens)
    /\ env_bucket \in BOOLEAN
    /\ pc = "entry"
    /\ collections = << >>
    /\ mongo_client = "None"
    /\ gcs_client = "None"
    /\ backup_info = << >>
    /\ backup_timestamp = 0
    /\ available = << >>
    /\ targets = << >>
    /\ idx = 0
    /\ data = None
    /\ exc = "none"
    /\ success = "unset"
    /\ response = NoResponse
    /\ now = StartTime
    /\ store \in {{}, OldBlobs}
    /\ cutoff = 0
    /\ pending = {}
    /\ exportCalls = << >>
    /\ putCalls = << >>
    /\ emails = << >>
    /\ mail_result = "unset"
    /\ deleteCalls = << >>
    /\ log = << >>
    /\ listing = {}
    /\ externalDeletes = 0
    /\ run_counter = 1
    /\ runs = << >>

\* ------------------------------------------------------------ __init__
\* self.collections = [c.strip() for c in ... .split(',') if c.strip()]
parse_collections(raw) ==
    LET stripped == [i \in DOMAIN raw |-> strip(raw[i])]
    IN  SelectSeq(stripped, LAMBDA c : c # "")

\* ------------------------------------------------------- notifications
\* how a send_*_email call can end; none of them leaves the method as an
\* exception (the method's own except returns False)
MailOutcomes == {"not_configured", "token_failed", "send_failed", "sent"}

\* a send_error_email(error_msg) call as the mail service sees it
ErrorMail(msg, detail) ==
    [kind |-> "error", error_msg |-> msg, detail |-> detail, rows |-> << >>]

\* a send_success_email() call: the rows are backup_info
SuccessMail(info) ==
    [kind |-> "success", error_msg |-> "", detail |-> "", rows |-> info]

\* mutant: the call is made a second time when the first returned False
notify_twice(mails, mail) == Append(Append(mails, mail), mail)

\* one call of self.send_success_email() / self.send_error_email(error_msg):
\* the mail service sees one more attempt
notify(mails, mail) == Append(mails, mail)

\* --------------------------------------------------------- connections
\* mutant: the except branch of connect_mongo forgets 'return False'
connect_mongo_always(o) == TRUE

\* connect_mongo's return value for the outcome of MongoClient() + ping
connect_mongo(o) == o = "ok"

\* self.mongo_client after connect_mongo
MongoClientAfter(o) ==
    CASE o = "ok"          -> "open"
      [] o = "ping_failed" -> "unreachable"
      [] OTHER             -> "None"

\* connect_gcs's return value for the outcome of storage.Client() + reload
connect_gcs(o) == o = "ok"

GcsClientAfter(o) ==
    CASE o = "ok"            -> "ok"
      [] o = "reload_failed" -> "unreachable"
      [] OTHER               -> "None"

\* finally: if self.mongo_client: self.mongo_client.close()
finally_close(c) == IF c = "None" THEN c ELSE "closed"

\* mutant: the configured names are used without the 'if c in available' filter
get_collections_unfiltered(configured, avail) ==
    IF configured # << >> THEN configured ELSE avail

\* ------------------------------------------- get_collections_to_backup
get_collections_to_backup(configured, avail) ==
    IF configured # << >>
    THEN SelectSeq(configured, LAMBDA c : c \in Range(avail))
    ELSE avail

\* ------------------------------------------------------------ the loop
\* mutant: 'if data["count"]' instead of 'if data'
Truthy_count(d) == ~d.isNone /\ d.count > 0

\* Python truth value of export_collection_to_json's result: None is
\* false, the dict it returns is never empty
Truthy(d) == ~d.isNone

\* export_collection_to_json's return value
export_result(name, o, n) ==
    IF o = "ok" THEN [collection |-> name, count |-> n, isNone |-> FALSE]
    ELSE None

\* where the for loop goes after finishing i targets
LoopNext(i) == IF i < Len(targets) THEN "export" ELSE "finish"

\* mutant: the entry is appended without looking at upload_to_gcs's result
record_backup_always(info, d, filename, uploaded) ==
    Append(info, [collection |-> d.collection, documents |-> d.count,
                  file |-> filename])

\* mutant: insert(0, ...) instead of append
record_backup_prepend(info, d, filename, uploaded) ==
    IF uploaded
    THEN <<[collection |-> d.collection, documents |-> d.count,
            file |-> filename]>> \o info
    ELSE info

\* self.backup_info after 'if self.upload_to_gcs(filename, data): append'
record_backup(info, d, filename, uploaded) ==
    IF uploaded
    THEN Append(info, [collection |-> d.collection, documents |-> d.count,
                       file |-> filename])
    ELSE info

\* bucket contents after blob.upload_from_string on 'filename'
put(blobs, filename, t) ==
    {b \in blobs : b.path # filename} \cup {[path |-> filename, created |-> t]}

\* mutant: the except clause returns True
except_return_true == "True"

\* value run_backup returns from its 'except Exception' clause
except_return == "False"

\* mutant: 'return self.send_success_email()'
after_success_mail_returned(ret, m) == IF m = "sent" THEN ret ELSE "False"

\* 'self.send_success_email()' followed by 'return True': the mail's own
\* return value is dropped
after_success_mail(ret, m) == ret

\* value run_backup returns after the loop
completion(info) == IF info # << >> THEN "True" ELSE "False"

\* ------------------------------------------------------------- actions
\* entry point, first line: backup = MongoDBBackup()
Construct ==
    /\ pc = "entry"
    /\ IF ~env_bucket
       THEN \* ValueError('GCS_BUCKET ... is required') -> the entry point's except
            /\ response' = [status |-> "error", code |-> 500, backup_info |-> << >>]
            /\ pc' = "done"
            /\ UNCHANGED <<collections, backup_timestamp>>
       ELSE /\ collections' = parse_collections(env_collections)
            /\ backup_timestamp' = strftime(now)
            /\ pc' = "connect_mongo"
            /\ UNCHANGED response
    /\ UNCHANGED <<envVars, worldVars, mongo_client, gcs_client, backup_info, loopVars, exc,
                   success, now, store, cutoff, pending, histVars>>

\* run_backup: 'if not self.connect_mongo()' and, when it fails, the
\* error mail and 'return False' (outside the try: no finally)
ConnectMongo ==
    /\ pc = "connect_mongo"
    /\ \E o \in {"ok", "ctor_failed", "ping_failed"} :
        /\ mongo_client' = MongoClientAfter(o)
        /\ IF connect_mongo(o)
           THEN /\ pc' = "connect_gcs"
                /\ UNCHANGED <<emails, mail_result, success>>
           ELSE /\ \E m \in MailOutcomes :
                     /\ mail_result' = m
                     /\ emails' = notify(emails,
                         ErrorMail("Failed to connect to MongoDB or GCS", ""))
                /\ success' = "False"
                /\ pc' = "returned"
    /\ UNCHANGED <<envVars, worldVars, collections, gcs_client, backup_info, backup_timestamp,
                   loopVars, exc, response, now, store, cutoff, pending,
                   exportCalls, putCalls, deleteCalls, log>>

\* run_backup: 'or not self.connect_gcs()' with the same failure branch
ConnectGcs ==
    /\ pc = "connect_gcs"
    /\ \E o \in {"ok", "ctor_failed", "reload_failed"} :
        /\ gcs_client' = GcsClientAfter(o)
        /\ IF connect_gcs(o)
           THEN /\ pc' = "list"
                /\ UNCHANGED <<emails, mail_result, success>>
           ELSE /\ \E m \in MailOutcomes :
                     /\ mail_result' = m
                     /\ emails' = notify(emails,
                         ErrorMail("Failed to connect to MongoDB or GCS", ""))
                /\ success' = "False"
                /\ pc' = "returned"
    /\ UNCHANGED <<envVars, worldVars, collections, mongo_client, backup_info, backup_timestamp,
                   loopVars, exc, response, now, store, cutoff, pending,
                   exportCalls, putCalls, deleteCalls, log>>

\* run_backup: collections = self.get_collections_to_backup(), and the
\* 'if not collections' branch (error mail, return False, finally)
GetCollections ==
    /\ pc = "list"
    /\ \E o \in {"ok", "PyMongoError", "Exception"}, avail \in LiveLists :
        CASE o = "ok" ->
               LET t == get_collections_to_backup(collections, avail) IN
               /\ available' = avail
               /\ targets' = t
               /\ exc' = exc
               /\ IF t = << >>
                  THEN /\ log' = Append(log, <<"warning", "No collections to backup">>)
                       /\ \E m \in MailOutcomes :
                            /\ mail_result' = m
                            /\ emails' = notify(emails,
                                ErrorMail("No collections to backup", ""))
                       /\ success' = "False"
                       /\ mongo_client' = finally_close(mongo_client)
                       /\ pc' = "returned"
                  ELSE /\ pc' = "export"
                       /\ UNCHANGED <<log, emails, mail_result, success, mongo_client>>
          [] o = "PyMongoError" ->
               \* caught inside get_collections_to_backup: return []
               /\ avail = << >>
               /\ UNCHANGED <<available, targets, exc>>
               /\ log' = Append(Append(log, <<"error", "Failed to list collections">>),
                                <<"warning", "No collections to backup">>)
               /\ \E m \in MailOutcomes :
                    /\ mail_result' = m
                    /\ emails' = notify(emails,
                        ErrorMail("No collections to backup", ""))
               /\ success' = "False"
               /\ mongo_client' = finally_close(mongo_client)
               /\ pc' = "returned"
          [] OTHER ->
               \* not a PyMongoError: leaves get_collections_to_backup
               /\ avail = << >>
               /\ exc' = "Exception"
               /\ pc' = "except"
               /\ UNCHANGED <<available, targets, log, emails, mail_result, success, mongo_client>>
    /\ UNCHANGED <<envVars, worldVars, collections, gcs_client, backup_info, backup_timestamp,
                   idx, data, response, now, store, cutoff, pending,
                   exportCalls, putCalls, deleteCalls>>

\* loop body, first half: data = self.export_collection_to_json(name);
\* 'if data' false: log and continue
Export ==
    /\ pc = "export"
    /\ idx < Len(targets)
    /\ LET name == targets[idx + 1] IN
       \E o \in {"ok", "PyMongoError", "Exception"}, n \in Counts :
            /\ (o # "ok" => n = 0)
            /\ exportCalls' = Append(exportCalls,
                                     [name |-> name, outcome |-> o, count |-> n])
            /\ IF o = "Exception"
               THEN \* not caught by 'except PyMongoError': leaves the loop
                    /\ exc' = "Exception"
                    /\ pc' = "except"
                    /\ UNCHANGED <<data, idx, log>>
               ELSE LET d == export_result(name, o, n) IN
                    /\ data' = d
                    /\ exc' = exc
                    /\ IF Truthy(d)
                       THEN /\ pc' = "upload"
                            /\ UNCHANGED <<idx, log>>
                       ELSE /\ log' = Append(log, <<"error", "Failed to export", name>>)
                            /\ idx' = idx + 1
                            /\ pc' = LoopNext(idx + 1)
    /\ UNCHANGED <<envVars, worldVars, selfVars, available, targets, success, response, now,
                   store, cutoff, pending, putCalls, emails, mail_result, deleteCalls>>

\* loop body, second half: self.upload_to_gcs(filename, data), append to
\* backup_info or log and continue
Upload ==
    /\ pc = "upload"
    /\ LET name == targets[idx + 1]
           filename == Path(db_name, backup_timestamp, name) IN
       \E ok \in BOOLEAN :
         /\ putCalls' = Append(putCalls, [path |-> filename, ok |-> ok])
         /\ store' = IF ok THEN put(store, filename, now) ELSE store
         /\ backup_info' = record_backup(backup_info, data, filename, ok)
         /\ log' = IF ok THEN log
                   ELSE Append(log, <<"error", "Failed to backup", name>>)
    /\ now' = now + 1
    /\ idx' = idx + 1
    /\ pc' = LoopNext(idx + 1)
    /\ UNCHANGED <<envVars, worldVars, collections, mongo_client, gcs_client, backup_timestamp,
                   available, targets, data, exc, success, response, cutoff,
                   pending, exportCalls, emails, mail_result, deleteCalls>>

\* after the loop: metadata upload and success mail, or the 'No
\* collections were successfully backed up' branch; then finally
Finish ==
    /\ pc = "finish"
    /\ IF completion(backup_info) = "True"
       THEN /\ \E ok \in BOOLEAN :
                 LET filename == Path("metadata", strftime(now), "backup") IN
                 /\ putCalls' = Append(putCalls, [path |-> filename, ok |-> ok])
                 /\ store' = IF ok THEN put(store, filename, now) ELSE store
            /\ now' = now + 1
            /\ \E m \in MailOutcomes :
                 /\ mail_result' = m
                 /\ emails' = notify(emails, SuccessMail(backup_info))
                 /\ success' = after_success_mail(completion(backup_info), m)
            /\ log' = log
       ELSE /\ log' = Append(log, <<"warning", "No collections were successfully backed up">>)
            /\ \E m \in MailOutcomes :
                 /\ mail_result' = m
                 /\ emails' = notify(emails,
                     ErrorMail("No collections were successfully backed up", ""))
            /\ success' = completion(backup_info)
            /\ UNCHANGED <<putCalls, store, now>>
    /\ mongo_client' = finally_close(mongo_client)
    /\ pc' = "returned"
    /\ UNCHANGED <<envVars, worldVars, collections, gcs_client, backup_info, backup_timestamp,
                   loopVars, exc, response, cutoff, pending, exportCalls,
                   deleteCalls>>

\* except Exception as e: error mail with str(e), return False; finally
Except ==
    /\ pc = "except"
    /\ log' = Append(log, <<"error", "Backup process failed", exc>>)
    /\ \E m \in MailOutcomes :
         /\ mail_result' = m
         /\ emails' = notify(emails, ErrorMail("Backup process failed", exc))
    /\ success' = except_return
    /\ mongo_client' = finally_close(mongo_client)
    /\ pc' = "returned"
    /\ UNCHANGED <<envVars, worldVars, collections, gcs_client, backup_info, backup_timestamp,
                   loopVars, exc, response, now, store, cutoff, pending,
                   exportCalls, putCalls, deleteCalls>>

\* ------------------------------------------------- cleanup_old_backups
\* mutant: '<=' instead of '<'
expired_inclusive(b, c) == b.created # -1 /\ b.created <= c

\* mutant: '>' instead of '<'
expired_newer(b, c) == b.created # -1 /\ b.created > c

\* 'blob.time_created and blob.time_created.replace(tzinfo=None) < cutoff_date'
expired(b, c) == b.created # -1 /\ b.created < c

\* cutoff_date = datetime.utcnow() - timedelta(days=days)
cutoff_date(t, days) == t - days * TicksPerDay

\* list_blobs(prefix='backups/') yields object names in lexicographic order
DirRank(d) == IF d = "metadata" THEN 1 ELSE 0
FileRank(f) == CASE f = "backup" -> 0 [] f = "equipment" -> 1 [] OTHER -> 2
Before(p, q) ==
    \/ DirRank(p.dir) < DirRank(q.dir)
    \/ DirRank(p.dir) = DirRank(q.dir) /\ p.stamp < q.stamp
    \/ DirRank(p.dir) = DirRank(q.dir) /\ p.stamp = q.stamp
         /\ FileRank(p.file) <= FileRank(q.file)
FirstBlob(S) == CHOOSE b \in S : \A o \in S : Before(b.path, o.path)

\* the blobs of S the loop will call delete() on
Due(S, c) == {x \in S : expired(x, c)}

\* the blobs that list_blobs yields after b
After(S, b) == {x \in S \ {b} : Before(b.path, x.path)}

\* mutant: 'except PyMongoError'-style narrow clause that lets a failing
\* delete leave cleanup_old_backups
cleanup_except_narrow(kind) == kind # "DeleteError"

\* cleanup_old_backups' 'except Exception': which errors raised in its try
\* are caught ("AttributeError": self.gcs_client is None, "ListError",
\* "DeleteError")
cleanup_except(kind) == TRUE

\* blob.delete(): the request succeeds only on an object that exists (the
\* storage client raises NotFound otherwise) and when the store answers
delete_blob(present, answered) == present /\ answered

\* an error raised inside cleanup_old_backups' try: logged by its except, or
\* carried on into the entry point's 'except Exception'
CleanupRaised(kind) ==
    IF cleanup_except(kind)
    THEN /\ log' = Append(log, <<"error", "Failed to cleanup old backups", kind>>)
         /\ response' = response
         /\ pc' = "respond"
    ELSE /\ log' = log
         /\ response' = [status |-> "error", code |-> 500, backup_info |-> << >>]
         /\ pc' = "done"

\* entry point after run_backup returned: read BACKUP_RETENTION_DAYS and
\* call cleanup_old_backups up to the listing of the bucket
StartCleanup ==
    /\ pc = "returned"
    /\ \E v \in RetentionEnv :
        LET days == ParseRetention(v) IN
        IF days = -1
        THEN \* int() raises ValueError -> the entry point's except
             /\ response' = [status |-> "error", code |-> 500, backup_info |-> << >>]
             /\ pc' = "done"
             /\ UNCHANGED <<cutoff, pending, listing, log>>
        ELSE /\ cutoff' = cutoff_date(now, days)
             /\ IF gcs_client = "None"
                THEN \* None.bucket(...) raises
                     /\ pending' = {}
                     /\ listing' = {}
                     /\ CleanupRaised("AttributeError")
                ELSE \E listed \in BOOLEAN :
                     /\ (gcs_client = "ok" => listed)
                     /\ pending' = IF listed THEN store ELSE {}
                     /\ listing' = IF listed THEN store ELSE {}
                     /\ IF listed
                        THEN /\ pc' = IF Due(store, cutoff_date(now, days)) # {}
                                      THEN "sweep" ELSE "respond"
                             /\ UNCHANGED <<log, response>>
                        ELSE CleanupRaised("ListError")
    /\ mail_result' = "unset"
    /\ UNCHANGED <<envVars, externalDeletes, run_counter, runs, selfVars, loopVars,
                   exc, success, now, store, exportCalls, putCalls, emails,
                   deleteCalls>>

\* 'for blob in blobs' from its current position up to and including its
\* next blob.delete() (the iterations before it only skip blobs that are not
\* expired); a failing delete leaves the loop
Sweep ==
    /\ pc = "sweep"
    /\ Due(pending, cutoff) # {}
    /\ LET b == FirstBlob(Due(pending, cutoff))
           present == \E x \in store : x.path = b.path IN
       \E answered \in BOOLEAN :
          LET ok == delete_blob(present, answered) IN
          /\ (~present => answered)
          /\ deleteCalls' = Append(deleteCalls,
                 [path |-> b.path, ok |-> ok, absent |-> ~present])
          /\ store' = IF ok THEN {x \in store : x.path # b.path} ELSE store
          /\ pending' = IF ok THEN After(pending, b) ELSE {}
          /\ IF ok
             THEN /\ pc' = IF Due(After(pending, b), cutoff) # {}
                           THEN "sweep" ELSE "respond"
                  /\ UNCHANGED <<log, response>>
             ELSE CleanupRaised("DeleteError")
    /\ UNCHANGED <<envVars, worldVars, selfVars, loopVars, exc, success, now,
                   cutoff, exportCalls, putCalls, emails, mail_result>>

\* the entry point's return value
entry_response(e, ok, info) ==
    [status |-> IF ok THEN "success" ELSE "failed",
     code |-> IF ok THEN 200 ELSE 500,
     backup_info |-> IF e = "app" THEN info ELSE << >>]

Respond ==
    /\ pc = "respond"
    /\ response' = entry_response(entry, success = "True", backup_info)
    /\ pc' = "done"
    /\ UNCHANGED <<envVars, worldVars, selfVars, loopVars, exc, success, now, store,
                   cutoff, pending, histVars>>

Next ==
    \/ Construct
    \/ ConnectMongo
    \/ ConnectGcs
    \/ GetCollections
    \/ Export
    \/ Upload
    \/ Finish
    \/ Except
    \/ StartCleanup
    \/ Sweep
    \/ Respond

Spec == Init /\ [][Next]_vars

\* ---- the bucket is shared: another actor removes objects meanwhile ----

MaxExternalDeletes == 1

\* between list_blobs and blob.delete() another actor (a second instance, a
\* lifecycle rule, an operator) removes a listed blob the sweep has still to
\* visit
ExternalDelete ==
    /\ pc = "sweep"
    /\ externalDeletes < MaxExternalDeletes
    /\ \E b \in Due(pending, cutoff) \cap store :
          store' = store \ {b}
    /\ externalDeletes' = externalDeletes + 1
    /\ UNCHANGED <<envVars, listing, run_counter, runs, selfVars, loopVars, pc,
                   exc, success, response, now, cutoff, pending, histVars>>

NextConcurrent == Next \/ ExternalDelete

SpecConcurrent == Init /\ [][NextConcurrent]_vars

\* ---- several runs against one bucket: each POST /backup (or each start
\* ---- of main) constructs its own MongoDBBackup

MaxRuns == 2
MaxRunTicks == 3

InitRuns ==
    /\ entry = "app"
    /\ env_collections = <<"users", " equipment ">>
    /\ env_bucket = TRUE
    /\ pc = "runs"
    /\ collections = << >>
    /\ mongo_client = "None"
    /\ gcs_client = "None"
    /\ backup_info = << >>
    /\ backup_timestamp = 0
    /\ available = << >>
    /\ targets = << >>
    /\ idx = 0
    /\ data = None
    /\ exc = "none"
    /\ success = "unset"
    /\ response = NoResponse
    /\ now = StartTime
    /\ store = {}
    /\ cutoff = 0
    /\ pending = {}
    /\ exportCalls = << >>
    /\ putCalls = << >>
    /\ emails = << >>
    /\ mail_result = "unset"
    /\ deleteCalls = << >>
    /\ log = << >>
    /\ listing = {}
    /\ externalDeletes = 0
    /\ run_counter = 1
    /\ runs = << >>

\* the clock advances
Tick ==
    /\ pc = "runs"
    /\ now < StartTime + MaxRunTicks
    /\ now' = now + 1
    /\ UNCHANGED <<envVars, worldVars, selfVars, loopVars, pc, exc, success,
                   response, store, cutoff, pending, histVars>>

\* MongoDBBackup(): the run takes its backup_timestamp from the clock
RunConstruct ==
    /\ pc = "runs"
    /\ Len(runs) < MaxRuns
    /\ runs' = Append(runs, [start |-> now,
                             backup_timestamp |-> strftime(now),
                             written |-> {}])
    /\ UNCHANGED <<envVars, listing, externalDeletes, run_counter, selfVars,
                   loopVars, pc, exc, success, response, now, store, cutoff,
                   pending, histVars>>

\* one run uploads the file of one of its collections:
\* filename = f'backups/{db_name}/{backup_timestamp}/{collection_name}.json'
RunUpload ==
    /\ pc = "runs"
    /\ \E r \in DOMAIN runs :
       \E name \in Range(parse_collections(env_collections)) :
          LET filename == Path(db_name, runs[r].backup_timestamp, name) IN
          /\ filename \notin runs[r].written
          /\ store' = put(store, filename, now)
          /\ putCalls' = Append(putCalls, [path |-> filename, ok |-> TRUE])
          /\ runs' = [runs EXCEPT ![r].written = @ \cup {filename}]
    /\ UNCHANGED <<envVars, listing, externalDeletes, run_counter, selfVars,
                   loopVars, pc, exc, success, response, now, cutoff, pending,
                   exportCalls, emails, mail_result, deleteCalls, log>>

NextRuns == Tick \/ RunConstruct \/ RunUpload

SpecRuns == InitRuns /\ [][NextRuns]_vars

\* ---- backup.py: the same class with its own export/upload/run_backup ----
\* (line 295 of backup.py does not parse; the actions below are the
\* methods as written, that is what runs once the file loads)

\* os.getenv('MONGO_DB_NAME', 'asset')
backup_db_name == "asset"

InitBackup ==
    /\ entry = "backup"
    /\ env_collections \in SeqsUpTo(RawTokens, MaxTokens)
    /\ env_bucket \in BOOLEAN
    /\ pc = "b_entry"
    /\ collections = << >>
    /\ mongo_client = "None"
    /\ gcs_client = "None"
    /\ backup_info = << >>
    /\ backup_timestamp = 0
    /\ available = << >>
    /\ targets = << >>
    /\ idx = 0
    /\ data = None
    /\ exc = "none"
    /\ success = "unset"
    /\ response = NoResponse
    /\ now = StartTime
    /\ store \in {{}, OldBlobs}
    /\ cutoff = 0
    /\ pending = {}
    /\ exportCalls = << >>
    /\ putCalls = << >>
    /\ emails = << >>
    /\ mail_result = "unset"
    /\ deleteCalls = << >>
    /\ log = << >>
    /\ listing = {}
    /\ externalDeletes = 0
    /\ run_counter = 1
    /\ runs = << >>

\* backup.py export_collection_to_json: the dict it returns has the keys
\* 'collection', 'documents' and 'file'; None after a PyMongoError
b_export_collection_to_json(name, o, n, stamp) ==
    IF o = "ok"
    THEN [collection |-> name, documents |-> n,
          file |-> Path(backup_db_name, stamp, name)]
    ELSE [isNone |-> TRUE]

\* 'if data': None is false, the three-key dict is true
b_truthy(d) == "isNone" \notin DOMAIN d

\* backup.py upload_to_gcs: json.dumps(data['data'], ...) comes before
\* blob.upload_from_string; a KeyError is caught by 'except Exception' and
\* the method returns False
b_upload_to_gcs(d, stored) == "data" \in DOMAIN d /\ stored

\* MongoDBBackup() of backup.py
B_Construct ==
    /\ pc = "b_entry"
    /\ IF ~env_bucket
       THEN \* ValueError('GCS_BUCKET ... is required') leaves the constructor
            /\ exc' = "ValueError"
            /\ pc' = "b_done"
            /\ UNCHANGED <<collections, backup_timestamp>>
       ELSE /\ collections' = parse_collections(env_collections)
            /\ backup_timestamp' = strftime(now)
            /\ pc' = "b_connect"
            /\ exc' = exc
    /\ UNCHANGED <<envVars, worldVars, mongo_client, gcs_client, backup_info,
                   loopVars, success, response, now, store, cutoff, pending,
                   histVars>>

\* 'if not self.connect_mongo() or not self.connect_gcs()': error mail and
\* return False, before the try
B_Connect ==
    /\ pc = "b_connect"
    /\ \E om \in {"ok", "ctor_failed", "ping_failed"},
          og \in {"ok", "ctor_failed", "reload_failed"} :
        /\ (~connect_mongo(om) => og = "ok")
        /\ mongo_client' = MongoClientAfter(om)
        /\ gcs_client' = IF connect_mongo(om) THEN GcsClientAfter(og) ELSE gcs_client
        /\ IF connect_mongo(om) /\ connect_gcs(og)
           THEN /\ pc' = "b_list"
                /\ UNCHANGED <<emails, mail_result, success>>
           ELSE /\ \E m \in MailOutcomes :
                     /\ mail_result' = m
                     /\ emails' = notify(emails,
                         ErrorMail("Failed to connect to MongoDB or GCS", ""))
                /\ success' = "False"
                /\ pc' = "b_done"
    /\ UNCHANGED <<envVars, worldVars, collections, backup_info, backup_timestamp,
                   loopVars, exc, response, now, store, cutoff, pending,
                   exportCalls, putCalls, deleteCalls, log>>

\* collections = self.get_collections_to_backup() and 'if not collections'
B_GetCollections ==
    /\ pc = "b_list"
    /\ \E o \in {"ok", "PyMongoError", "Exception"}, avail \in LiveLists :
        IF o # "Exception"
        THEN \* a PyMongoError is caught inside the method: return []
             LET t == IF o = "ok"
                      THEN get_collections_to_backup(collections, avail)
                      ELSE << >> IN
             /\ (o = "PyMongoError" => avail = << >>)
             /\ available' = avail
             /\ targets' = t
             /\ exc' = exc
             /\ IF t = << >>
                THEN /\ log' = Append(IF o = "PyMongoError"
                                      THEN Append(log, <<"error", "Failed to list collections">>)
                                      ELSE log,
                                      <<"warning", "No collections to backup">>)
                     /\ \E m \in MailOutcomes :
                          /\ mail_result' = m
                          /\ emails' = notify(emails,
                              ErrorMail("No collections to backup", ""))
                     /\ success' = "False"
                     /\ mongo_client' = finally_close(mongo_client)
                     /\ pc' = "b_done"
                ELSE /\ pc' = "b_loop"
                     /\ UNCHANGED <<log, emails, mail_result, success, mongo_client>>
        ELSE /\ avail = << >>
             /\ exc' = "Exception"
             /\ pc' = "b_except"
             /\ UNCHANGED <<available, targets, log, emails, mail_result,
                            success, mongo_client>>
    /\ UNCHANGED <<envVars, worldVars, collections, gcs_client, backup_info,
                   backup_timestamp, idx, data, response, now, store, cutoff,
                   pending, exportCalls, putCalls, deleteCalls>>

\* one turn of the loop: data = export...; 'if data and
\* self.upload_to_gcs(data['file'], data)': append, else log and continue
B_Loop ==
    /\ pc = "b_loop"
    /\ idx < Len(targets)
    /\ LET name == targets[idx + 1] IN
       \E o \in {"ok", "PyMongoError", "Exception"}, n \in Counts,
          stored \in BOOLEAN :
            /\ (o # "ok" => n = 0 /\ stored)
            /\ exportCalls' = Append(exportCalls,
                                     [name |-> name, outcome |-> o, count |-> n])
            /\ IF o = "Exception"
               THEN /\ exc' = "Exception"
                    /\ pc' = "b_except"
                    /\ UNCHANGED <<backup_info, idx, log, putCalls, store>>
               ELSE LET d == b_export_collection_to_json(name, o, n, backup_timestamp)
                        attempted == b_truthy(d) /\ "data" \in DOMAIN d
                        uploaded == b_truthy(d) /\ b_upload_to_gcs(d, stored) IN
                    /\ exc' = exc
                    /\ putCalls' = IF attempted
                                   THEN Append(putCalls, [path |-> d.file, ok |-> stored])
                                   ELSE putCalls
                    /\ store' = IF uploaded THEN put(store, d.file, now) ELSE store
                    /\ backup_info' = IF uploaded
                                      THEN Append(backup_info, d) ELSE backup_info
                    /\ log' = IF uploaded THEN log
                              ELSE Append(log, <<"error", "Failed to backup collection", name>>)
                    /\ idx' = idx + 1
                    /\ pc' = IF idx + 1 < Len(targets) THEN "b_loop" ELSE "b_finish"
    /\ now' = now + 1
    /\ UNCHANGED <<envVars, worldVars, collections, mongo_client, gcs_client,
                   backup_timestamp, available, targets, data, success,
                   response, cutoff, pending, emails, mail_result, deleteCalls>>

\* 'if successful_backups > 0': success mail, cleanup_old_backups() with
\* its default of 30 days, return True; else error mail, return False;
\* finally close
B_Finish ==
    /\ pc = "b_finish"
    /\ IF Len(backup_info) > 0
       THEN /\ \E m \in MailOutcomes :
                 /\ mail_result' = m
                 /\ emails' = notify(emails, SuccessMail(backup_info))
            /\ cutoff' = cutoff_date(now, DefaultRetentionDays)
            /\ listing' = store
            /\ store' = store \ Due(store, cutoff_date(now, DefaultRetentionDays))
            /\ success' = "True"
            /\ log' = log
       ELSE /\ log' = Append(log, <<"warning", "No collections were successfully backed up">>)
            /\ \E m \in MailOutcomes :
                 /\ mail_result' = m
                 /\ emails' = notify(emails,
                     ErrorMail("No collections were successfully backed up", ""))
            /\ success' = "False"
            /\ UNCHANGED <<cutoff, listing, store>>
    /\ mongo_client' = finally_close(mongo_client)
    /\ pc' = "b_done"
    /\ UNCHANGED <<envVars, externalDeletes, run_counter, runs, collections,
                   gcs_client, backup_info, backup_timestamp, loopVars, exc,
                   response, now, pending, exportCalls, putCalls, deleteCalls>>

\* except Exception: error mail, return False; finally close
B_Except ==
    /\ pc = "b_except"
    /\ \E m \in MailOutcomes :
         /\ mail_result' = m
         /\ emails' = notify(emails, ErrorMail("Backup process failed", exc))
    /\ log' = Append(log, <<"error", "Backup process failed", exc>>)
    /\ success' = "False"
    /\ mongo_client' = finally_close(mongo_client)
    /\ pc' = "b_done"
    /\ UNCHANGED <<envVars, worldVars, collections, gcs_client, backup_info,
                   backup_timestamp, loopVars, exc, response, now, store,
                   cutoff, pending, exportCalls, putCalls, deleteCalls>>

NextBackup ==
    \/ B_Construct
    \/ B_Connect
    \/ B_GetCollections
    \/ B_Loop
    \/ B_Finish
    \/ B_Except

SpecBackup == InitBackup /\ [][NextBackup]_vars

\* ================================================================ claims
RunReturned == success # "unset"

\* the upload_to_gcs calls of the loop (not the metadata upload)
CollectionPuts == SelectSeq(putCalls, LAMBDA c : c.path.dir = db_name)

OkExports == SelectSeq(exportCalls, LAMBDA c : c.outcome = "ok")

Names(info) == [i \in DOMAIN info |-> info[i].collection]

ExportedNames == [i \in DOMAIN exportCalls |-> exportCalls[i].name]

\* the environment let every export and every upload made so far succeed
AllCallsSucceeded ==
    /\ \A i \in DOMAIN exportCalls : exportCalls[i].outcome = "ok"
    /\ \A i \in DOMAIN putCalls : putCalls[i].ok

\* C1: once run_backup has returned from a run that entered the loop, every
\* target collection was handed to the exporter exactly once, in list order,
\* whatever happened to the collections before it.
C1_EveryTargetExported ==
    (RunReturned /\ targets # << >>) => ExportedNames = targets

\* C2: a run in which at least one collection was exported and uploaded
\* returns True and has attempted the success notification.
C2_CompletedWhenAnyExported ==
    (RunReturned /\ backup_info # << >>) =>
        /\ success = "True"
        /\ \E i \in DOMAIN emails : emails[i].kind = "success"

\* C3: after a run that reached the bucket and in which no collection was
\* backed up (every collection failed, or the target list was empty), the
\* failure notification was attempted and no delete call is issued.
C3_NoDeleteAfterFailedRun ==
    (RunReturned /\ success = "False" /\ gcs_client = "ok") =>
        /\ \E i \in DOMAIN emails : emails[i].kind = "error"
        /\ deleteCalls = << >>

\* C4: when some but not all target collections were backed up, the entry
\* point reports a status that is neither the one of a full success nor the
\* one of a failed run.
C4_PartialFailureDistinguishable ==
    (pc = "done" /\ backup_info # << >> /\ Len(backup_info) < Len(targets)) =>
        response.status \notin {"success", "failed"}

\* C5: when the target list is not empty and every export and every upload
\* succeeded, run_backup returns True, backup_info has one entry per target
\* collection in order, and the only notification is the success mail.
C5_AllSucceed ==
    (RunReturned /\ targets # << >> /\ AllCallsSucceeded) =>
        /\ success = "True"
        /\ Names(backup_info) = targets
        /\ Len(emails) = 1
        /\ emails[1].kind = "success"

C5_Witness ==
    /\ RunReturned
    /\ Len(targets) = 2
    /\ AllCallsSucceeded
    /\ Len(backup_info) = 2

RECURSIVE ExpectedInfo(_)
ExpectedInfo(j) ==
    IF j = 0 THEN << >>
    ELSE IF CollectionPuts[j].ok
         THEN Append(ExpectedInfo(j - 1),
                     [collection |-> OkExports[j].name,
                      documents |-> OkExports[j].count,
                      file |-> CollectionPuts[j].path])
         ELSE ExpectedInfo(j - 1)

C7_ExportedIsDurable ==
    \A i \in DOMAIN backup_info :
        /\ backup_info[i].file.dir # ""
        /\ backup_info[i].file.file # ""
        /\ \E j \in DOMAIN putCalls :
             putCalls[j].path = backup_info[i].file /\ putCalls[j].ok

C7_Witness ==
    /\ backup_info # << >>
    /\ \E j \in DOMAIN putCalls : ~putCalls[j].ok /\ putCalls[j].path.dir = db_name

\* the database could not be reached: no client, or a client whose ping failed
DbUnreachable ==
    /\ pc \notin {"entry", "connect_mongo"}
    /\ env_bucket
    /\ mongo_client \in {"None", "unreachable"}

\* C8: when the database is unreachable at run start, run_backup returns
\* False with an empty result list, no export and no upload was attempted,
\* and exactly one notification, the failure mail, was attempted.
C8_DbUnreachable ==
    DbUnreachable =>
        /\ success = "False"
        /\ backup_info = << >>
        /\ exportCalls = << >>
        /\ putCalls = << >>
        /\ Len(emails) = 1
        /\ emails[1].kind = "error"

C8_Witness == DbUnreachable /\ pc = "done" /\ mongo_client = "unreachable"

\* C9: once an exception has left the loop, no collection is exported or
\* uploaded after the call that raised, and run_backup returns False after
\* attempting the failure mail with the error text and no success mail.
C9_EscapedException ==
    exc # "none" =>
        /\ pc \in {"except", "returned", "sweep", "respond", "done"}
        /\ (exportCalls # << >> => exportCalls[Len(exportCalls)].outcome = "Exception")
        /\ Len(putCalls) = Len(OkExports)
        /\ \A j \in DOMAIN putCalls : putCalls[j].path.dir = db_name
        /\ (pc # "except" =>
              /\ success = "False"
              /\ Len(emails) = 1
              /\ emails[1].kind = "error"
              /\ emails[1].error_msg = "Backup process failed"
              /\ emails[1].detail = exc)

\* the second collection's export raises after the first was backed up
C9_Witness ==
    /\ exc # "none"
    /\ RunReturned
    /\ Len(targets) = 2
    /\ Len(exportCalls) = 2
    /\ Len(backup_info) = 1

\* the configured names that are live, in configured order
RECURSIVE KeepLive(_, _)
KeepLive(cfg, live) ==
    IF cfg = << >> THEN << >>
    ELSE IF Head(cfg) \in live
         THEN <<Head(cfg)>> \o KeepLive(Tail(cfg), live)
         ELSE KeepLive(Tail(cfg), live)

\* C10: the target list is the configured names that are live, in configured
\* order, when names are configured, and all live collections otherwise; a
\* missing configured name alone raises no error; the exporter only ever
\* gets live names.
C10_Selection ==
    /\ targets = IF collections # << >>
                 THEN KeepLive(collections, Range(available))
                 ELSE available
    /\ \A i \in DOMAIN exportCalls : exportCalls[i].name \in Range(available)
    /\ (pc = "export" /\ exportCalls = << >>) =>
          (emails = << >> /\ log = << >> /\ exc = "none")

\* "equipment" is configured and missing, "users" is configured and live
C10_Witness ==
    /\ collections = <<"equipment", "users">>
    /\ available = <<"users">>
    /\ targets = <<"users">>
    /\ exportCalls # << >>

\* cleanup_old_backups was called (it computes its cutoff first)
CleanupCalled == cutoff # 0

\* cleanup_old_backups has returned to the entry point
CleanupReturned == CleanupCalled /\ pc \in {"respond", "done"}

CleanupFailed ==
    \E i \in DOMAIN log : log[i][2] = "Failed to cleanup old backups"

StoredPaths == {b.path : b \in store}

\* C11: when the entry point is done after a run that returned True, the
\* retention cleanup was called, and no delete call was issued before the
\* notification of the run was attempted.
C11_CleanupAfterCompleted ==
    /\ (pc = "done" /\ success = "True") => CleanupCalled
    /\ (deleteCalls # << >> => emails # << >>)

\* C12: every delete call of the sweep is on a listed blob that has a
\* creation time strictly older than now minus the retention days, and a
\* sweep that met no store error leaves exactly the listed blobs that are
\* not older than the cutoff or have no creation time.
C12_Retention ==
    /\ CleanupCalled =>
          \E days \in {0, 1, DefaultRetentionDays} :
               cutoff = now - days * SecondsPerDay * TicksPerSecond
    /\ \A i \in DOMAIN deleteCalls :
          \E b \in listing :
              /\ b.path = deleteCalls[i].path
              /\ b.created # -1
              /\ b.created < cutoff
    /\ (CleanupReturned /\ ~CleanupFailed /\ response.status # "error") =>
          store = {b \in listing : b.created = -1 \/ b.created >= cutoff}

\* retention 30 at time T with blobs of T-40d, T-30d, T-10d and one without
\* creation time: only the T-40d blob is deleted
C12_Witness ==
    /\ pc = "done"
    /\ ~CleanupFailed
    /\ listing = OldBlobs
    /\ cutoff = StartTime - 30 * TicksPerDay
    /\ Len(deleteCalls) = 1
    /\ deleteCalls[1].path.stamp = strftime(StartTime - 40 * TicksPerDay)
    /\ Cardinality(store) = 3

C14_MailNeverDecides ==
    /\ RunReturned =>
          ((success = "True") <=>
             (exc = "none" /\ \E j \in DOMAIN CollectionPuts : CollectionPuts[j].ok))
    /\ (pc = "returned" => mail_result \in MailOutcomes)

C14_Witness ==
    /\ pc = "returned"
    /\ success = "True"
    /\ mail_result = "token_failed"

\* C15: after a run that returned True the persisted RunCounter (1 when the
\* entry point was invoked) has advanced by one.
C15_CounterAdvances ==
    (pc = "done" /\ success = "True") => run_counter = 2

\* C18: no two entries of backup_info share a collection name and no
\* artifact path is uploaded twice in a run.
C18_UniqueWithinRun ==
    /\ \A i, j \in DOMAIN backup_info :
          i # j => backup_info[i].collection # backup_info[j].collection
    /\ \A i, j \in DOMAIN putCalls :
          i # j => putCalls[i].path # putCalls[j].path

\* C20 as claimed: when the entry point is done, every artifact recorded in
\* backup_info is still in the bucket.
C20_OwnArtifactsSurvive ==
    (pc = "done" /\ CleanupCalled) =>
        \A i \in DOMAIN backup_info : backup_info[i].file \in StoredPaths

\* C20 amended: with a retention of at least one day (and a run shorter
\* than the retention window) the cleanup deletes no artifact recorded in
\* backup_info.
C20_OwnArtifactsSurviveFromOneDay ==
    (CleanupCalled /\ now - StartTime < SecondsPerDay * TicksPerSecond
        /\ \E days \in {1, DefaultRetentionDays} :
               cutoff = now - days * SecondsPerDay * TicksPerSecond) =>
        \A i \in DOMAIN backup_info : backup_info[i].file \in StoredPaths

\* retention of one day, two collections backed up, sweep over
C20_Witness ==
    /\ pc = "done"
    /\ cutoff = now - TicksPerDay
    /\ Len(backup_info) = 2
    /\ deleteCalls # << >>
    /\ ~CleanupFailed

\* C16: a delete call on a blob that is no longer there succeeds, and a
\* sweep whose only failed deletes were on blobs already gone leaves no
\* listed blob older than the cutoff in the bucket.
C16_SweepSurvivesRemoval ==
    /\ \A i \in DOMAIN deleteCalls : deleteCalls[i].absent => deleteCalls[i].ok
    /\ (pc = "done" /\ CleanupCalled
          /\ \A i \in DOMAIN deleteCalls : ~deleteCalls[i].ok => deleteCalls[i].absent) =>
          \A b \in listing \cap store : b.created = -1 \/ b.created >= cutoff

C19_AllSucceedBackupPy ==
    (/\ pc = "b_done"
     /\ success # "unset"
     /\ exc = "none"
     /\ targets # << >>
     /\ Len(exportCalls) = Len(targets)
     /\ \A i \in DOMAIN exportCalls : exportCalls[i].outcome = "ok"
     /\ \A i \in DOMAIN putCalls : putCalls[i].ok) =>
        /\ success = "True"
        /\ Len(backup_info) = Len(targets)
        /\ emails # << >>
        /\ emails[Len(emails)].kind = "success"

\* C21: run_backup makes no notification call before its last statement and
\* exactly one by the time it has returned: the success mail when it
\* returned True, the error mail when it returned False.
C21_ExactlyOneNotification ==
    /\ (~RunReturned => emails = << >>)
    /\ RunReturned =>
          /\ Len(emails) = 1
          /\ emails[1].kind = IF success = "True" THEN "success" ELSE "error"

\* an exception left the loop after a collection had been backed up: the
\* only mail is the error mail
C21_Witness ==
    /\ pc = "returned"
    /\ backup_info # << >>
    /\ exc = "Exception"
    /\ success = "False"
    /\ Len(emails) = 1
    /\ emails[1].kind = "error"

\* C22: when run_backup has returned, a MongoDB client that was created has
\* been closed.
C22_ClientClosedOnReturn ==
    RunReturned => mongo_client \in {"None", "closed"}

====
